---- MODULE Spec2Model ----
(***************************************************************************)
(* BlockSentinel go-listener: the checkpoint store (resolveStateFile,       *)
(* loadState, saveState), the backoff connector (util/util.go), the scan   *)
(* engine (fetchNewTransactions and the loop of main) and the analyzer     *)
(* dispatch (sendToAIAnalyzer).                                            *)
(***************************************************************************)
EXTENDS Integers, Sequences, FiniteSets, TLC

VARIABLES
    pc,          \* position of the listener process in main()
    cfg,         \* *Config returned by loadConfig
    fs,          \* file system nodes the checkpoint store touches
    path,        \* path handed to loadState / saveState
    lastBlock,   \* main's lastBlock
    newLastBlock,\* main's newLastBlock (value being saved)
    wallets,     \* address list of the current loop iteration
    dbpool,      \* main's dbpool (TRUE: a pool handle, FALSE: nil)
    registry,    \* rows of the addresses table
    maxWait,     \* ConnectPostgresWithBackoff: maxWait, in units of 500ms
    wait,        \* ConnectPostgresWithBackoff: wait, same unit
    elapsed,     \* ConnectPostgresWithBackoff: time.Since(started), same unit
    waits,       \* history: the waits slept so far by the running connect
    connRes,     \* history: the latest attempt and what the connector returned
    ctx,         \* ConnectPostgresWithBackoff: ctx ("live", or "done" once cancelled)
    tick,        \* history: what the latest fetchNewTransactions call did
    dispatched,  \* history: transactions dispatched by this process
    hist,        \* history: the latest save and the values persisted
    loaded,      \* history: result of the latest loadState
    ticks,       \* number of loop iterations begun
    starts       \* number of process starts

vars == <<pc, cfg, fs, path, lastBlock, newLastBlock, wallets, dbpool,
          registry, maxWait, wait, elapsed, waits, connRes, ctx, tick, dispatched,
          hist, loaded, ticks, starts>>

-----------------------------------------------------------------------------
(* Bounds of the model *)

MaxLow == 0
MaxTicks == 2
MaxStarts == 2

(* Program constants *)

BootstrapWindow == 1000
InitialWait == 1
WaitCap == 10
MaxWait == 120

-----------------------------------------------------------------------------
(* encoding/json for State{LastBlock uint64}: the document is the token     *)
(* sequence  {  "last_block":  d1 .. dn  }                                  *)

DigitChars == <<"0", "1", "2", "3", "4", "5", "6", "7", "8", "9">>

DigitOf(c) == CHOOSE d \in 0..9 : DigitChars[d + 1] = c

IsDigit(c) == \E d \in 0..9 : DigitChars[d + 1] = c

RECURSIVE Digits_lsbfirst(_)
Digits_lsbfirst(n) ==
    IF n < 10 THEN <<DigitChars[n + 1]>>
    ELSE <<DigitChars[(n % 10) + 1]>> \o Digits_lsbfirst(n \div 10)

\* strconv.AppendUint: decimal digits, most significant first
RECURSIVE Digits(_)
Digits(n) ==
    IF n < 10 THEN <<DigitChars[n + 1]>>
    ELSE Append(Digits(n \div 10), DigitChars[(n % 10) + 1])

RECURSIVE ParseDigits(_)
ParseDigits(ds) ==
    IF ds = <<>> THEN 0
    ELSE 10 * ParseDigits(SubSeq(ds, 1, Len(ds) - 1)) + DigitOf(ds[Len(ds)])

\* json.Marshal(State{LastBlock: blockNum})
Marshal(blockNum) == <<"{", "last_block:">> \o Digits(blockNum) \o <<"}">>

ValidJSON(data) ==
    /\ Len(data) >= 4
    /\ data[1] = "{"
    /\ data[2] = "last_block:"
    /\ data[Len(data)] = "}"
    /\ \A i \in 3..(Len(data) - 1) : IsDigit(data[i])
    /\ (Len(data) > 4 => data[3] # "0")

\* json.Unmarshal(data, &state) with the error dropped: state stays zero
Unmarshal(data) ==
    IF ValidJSON(data) THEN ParseDigits(SubSeq(data, 3, Len(data) - 1)) ELSE 0

-----------------------------------------------------------------------------
(* The file system.  A node is absent, a directory or a regular file.  A    *)
(* path names a node and may end in a separator.                            *)

Nodes == {"state.json", "statedir", "statedir/state.json"}

NoNode == [kind |-> "none", data |-> <<>>]
DirNode == [kind |-> "dir", data |-> <<>>]
FileNode(data) == [kind |-> "file", data |-> data]

\* the literal path main hands to loadState and saveState
StatePath == [node |-> "state.json", slash |-> FALSE]

Paths == {StatePath,
          [node |-> "statedir", slash |-> FALSE],
          [node |-> "statedir", slash |-> TRUE]}

\* filepath.Join(dir, "state.json")
JoinStateJSON(node) == CASE node = "statedir" -> "statedir/state.json"

\* filepath.Dir(resolved)
Dir(node) == IF node = "statedir/state.json" THEN "statedir" ELSE "."

\* one injected I/O fault per store call: the system call that fails
IOFaults == {"none", "stat", "mkdir", "read", "open", "write"}

\* os.MkdirAll(dir): [err, fs]
MkdirAll(f, dir, fault) ==
    IF fault = "mkdir" \/ f[dir].kind = "file"
    THEN [err |-> TRUE, fs |-> f]
    ELSE [err |-> FALSE, fs |-> [f EXCEPT ![dir] = DirNode]]

\* resolveStateFile(path): [err, node, fs]
resolveStateFile(f, p, fault) ==
    IF fault = "stat" \/ (p.slash /\ f[p.node].kind = "file")
    THEN [err |-> TRUE, node |-> p.node, fs |-> f]
    ELSE IF f[p.node].kind = "none"
    THEN IF p.slash
         THEN LET mk == MkdirAll(f, p.node, fault)
              IN  IF mk.err THEN [err |-> TRUE, node |-> p.node, fs |-> f]
                  ELSE [err |-> FALSE, node |-> JoinStateJSON(p.node),
                        fs |-> mk.fs]
         ELSE [err |-> FALSE, node |-> p.node, fs |-> f]
    ELSE IF f[p.node].kind = "dir"
    THEN [err |-> FALSE, node |-> JoinStateJSON(p.node), fs |-> f]
    ELSE [err |-> FALSE, node |-> p.node, fs |-> f]

\* loadState(path): [val, err, fs]
loadState(f, p, fault) ==
    LET r == resolveStateFile(f, p, fault) IN
    IF r.err THEN [val |-> 0, err |-> TRUE, fs |-> r.fs]
    ELSE IF r.fs[r.node].kind = "none"
    THEN [val |-> 0, err |-> FALSE, fs |-> r.fs]
    ELSE IF fault = "read" \/ r.fs[r.node].kind = "dir"
    THEN [val |-> 0, err |-> TRUE, fs |-> r.fs]
    ELSE [val |-> Unmarshal(r.fs[r.node].data), err |-> FALSE, fs |-> r.fs]

\* saveState(path, blockNum) up to and including the open of os.WriteFile
\* (O_WRONLY|O_CREATE|O_TRUNC): [err, node, fs]
saveOpen(f, p, fault) ==
    LET r == resolveStateFile(f, p, fault) IN
    IF r.err THEN [err |-> TRUE, node |-> r.node, fs |-> r.fs]
    ELSE LET mk == IF Dir(r.node) # "."
                   THEN MkdirAll(r.fs, Dir(r.node), fault)
                   ELSE [err |-> FALSE, fs |-> r.fs]
         IN  IF mk.err THEN [err |-> TRUE, node |-> r.node, fs |-> mk.fs]
             ELSE IF fault = "open" \/ mk.fs[r.node].kind = "dir"
             THEN [err |-> TRUE, node |-> r.node, fs |-> mk.fs]
             ELSE [err |-> FALSE, node |-> r.node,
                   fs |-> [mk.fs EXCEPT ![r.node] = FileNode(<<>>)]]

\* how much of data a failed or interrupted write may leave behind: any
\* proper prefix
PartialLengths(data) == 0..(Len(data) - 1)

\* the same for the saves of the scan loop: nothing, the file stays as the
\* open truncated it
CutLengths(data) == {0}

\* the f.Write(data) of os.WriteFile: all of data, or a proper prefix of it
\* when the write fails: [err, fs]
saveWrite(f, node, blockNum, fault, written) ==
    LET data == Marshal(blockNum) IN
    IF fault = "write"
    THEN [err |-> TRUE,
          fs |-> [f EXCEPT ![node] = FileNode(SubSeq(data, 1, written))]]
    ELSE [err |-> FALSE, fs |-> [f EXCEPT ![node] = FileNode(data)]]

\* saveState(path, blockNum): [err, fs]
saveState(f, p, blockNum, fault, written) ==
    LET o == saveOpen(f, p, fault) IN
    IF o.err THEN [err |-> TRUE, fs |-> o.fs]
    ELSE saveWrite(o.fs, o.node, blockNum, fault, written)

\* the value a fault-free loadState(path) would return now
PersistedValue == loadState(fs, path, "none").val

-----------------------------------------------------------------------------
(* Configuration (config.go) *)

\* an environment value is a token sequence; "," is the separator token
Field(toks) == IF toks = <<>> THEN "" ELSE toks[1]

\* strings.Split(s, ","): never empty, Split("") = [""]
RECURSIVE Split(_)
Split(s) ==
    IF \A i \in 1..Len(s) : s[i] # ","
    THEN <<Field(s)>>
    ELSE LET i == CHOOSE j \in 1..Len(s) :
                      s[j] = "," /\ \A k \in 1..(j - 1) : s[k] # ","
         IN  <<Field(SubSeq(s, 1, i - 1))>> \o Split(SubSeq(s, i + 1, Len(s)))

DefaultWallets == <<"0x1234">>

\* loadConfig, environment branch (RPC_URL set)
loadConfig(env) ==
    LET ws == Split(env.WALLETS) IN
    [Wallets |-> IF Len(ws) = 0 THEN DefaultWallets ELSE ws,
     AIAnalyzerURL |-> env.AI_ANALYZER_URL,
     DatabaseURL |-> env.DATABASE_URL]

MkEnv(ws, analyzer, db) ==
    [WALLETS |-> ws, AI_ANALYZER_URL |-> analyzer, DATABASE_URL |-> db]

\* the environments the process is started in, without a registry
Envs == {MkEnv(<<"0xA">>, "http://analyzer", ""),
         MkEnv(<<>>, "http://analyzer", ""),
         MkEnv(<<"0xa", ",", "0xb">>, "", "")}

\* the environment with DATABASE_URL set
WatchEnvs == {MkEnv(<<"0xA">>, "http://analyzer", "postgres://db")}

-----------------------------------------------------------------------------
(* Addresses and the chain served by the RPC node *)

ZeroAddress == "zero"

\* common.HexToAddress: case-insensitive hex, "" and bad hex give the zero
\* address
HexToAddress(w) ==
    CASE w \in {"0xA", "0xa"} -> "a"
      [] w \in {"0xB", "0xb"} -> "b"
      [] w = "0x1234" -> "d"
      [] OTHER -> ZeroAddress

WalletSet(ws) == {HexToAddress(ws[i]) : i \in 1..Len(ws)}

\* a transaction: from = "badsig" when types.Sender fails, to = "nil" for a
\* contract creation
MkTx(b, i, from, to) == [id |-> <<b, i>>, from |-> from, to |-> to]

\* block.Transactions() of block b
BlockTxs(b) ==
    LET r == b % BootstrapWindow IN
    CASE r = 1 -> <<MkTx(b, 1, "a", "x"), MkTx(b, 2, "x", "nil")>>
      [] r = 2 -> <<MkTx(b, 1, "x", "a"), MkTx(b, 2, "a", "b"),
                    MkTx(b, 3, "badsig", "a"), MkTx(b, 4, "x", "y")>>
      [] OTHER -> <<>>

\* heights the node may report: low ones, the bootstrap window, and one
\* past the window by more than the first block a retrieval can fail at
Heights == (0..MaxLow) \cup {BootstrapWindow, BootstrapWindow + 2}

\* the blocks that hold a transaction whose sender cannot be recovered
BadSigBlocks ==
    {b \in 1..(BootstrapWindow + 2) :
        \E i \in 1..Len(BlockTxs(b)) : BlockTxs(b)[i].from = "badsig"}

\* blocks whose retrieval may fail, dispatches that may fail
FlakyBlock(b) == b % BootstrapWindow \in {0, 2}
FlakyTxs(lo, hi) == {<<b, 1>> : b \in {k \in lo..hi : k = 1}}

-----------------------------------------------------------------------------
(* fetchNewTransactions *)

Bootstrap_nowindow(lastBlk, latestBlock) == lastBlk

Bootstrap_always(lastBlk, latestBlock) ==
    IF latestBlock > BootstrapWindow
    THEN latestBlock - BootstrapWindow
    ELSE lastBlk

Bootstrap_skip(lastBlk, latestBlock) ==
    IF lastBlk = 0
    THEN IF latestBlock > BootstrapWindow
         THEN latestBlock - BootstrapWindow ELSE lastBlk
    ELSE lastBlk + 1

\* lines 24-27: seed the checkpoint when there is no previous state
Bootstrap(lastBlk, latestBlock) ==
    IF lastBlk = 0 /\ latestBlock > BootstrapWindow
    THEN latestBlock - BootstrapWindow
    ELSE lastBlk

ShouldDispatch_always(analyzerURL) == TRUE

\* line 87
ShouldDispatch(analyzerURL) == analyzerURL # ""

\* line 65, with to = common.Address{} when tx.To() is nil
IsMatch(tx, walletSet) ==
    LET to == IF tx.to = "nil" THEN ZeroAddress ELSE tx.to
    IN  tx.from \in walletSet \/ to \in walletSet

Ids(txs) == [i \in 1..Len(txs) |-> txs[i].id]

SenderRecovered_always(tx) == TRUE

\* lines 55-58: types.Sender returned no error
SenderRecovered(tx) == tx.from # "badsig"

\* lines 51-99 for one retrieved block
ScanBlock(blockNum, walletSet, analyzerURL) ==
    LET found == SelectSeq(BlockTxs(blockNum),
                     LAMBDA tx : SenderRecovered(tx) /\ IsMatch(tx, walletSet))
    IN  [lastBlock |-> blockNum, err |-> FALSE, failedAt |-> 0,
         fetched |-> <<blockNum>>,
         logged |-> Ids(found),
         calls |-> IF ShouldDispatch(analyzerURL) THEN Ids(found) ELSE <<>>]

\* lo..hi holds no transaction and no failing retrieval
Quiet(lo, hi, failBlock) ==
    \A b \in lo..hi : b # failBlock /\ BlockTxs(b) = <<>>

\* the for loop of lines 44-100 over lo..hi (lo <= hi), split in halves so
\* that the evaluation depth stays logarithmic; the right half runs only
\* when the left half returned no error.  A run of blocks without
\* transactions is retrieved and passed over in one step.
RECURSIVE ScanRange(_, _, _, _, _)
ScanRange(lo, hi, walletSet, analyzerURL, failBlock) ==
    IF lo < hi /\ Quiet(lo, hi, failBlock)
    THEN [lastBlock |-> hi, err |-> FALSE, failedAt |-> 0,
          fetched |-> [i \in 1..(hi - lo + 1) |-> lo + i - 1],
          logged |-> <<>>, calls |-> <<>>]
    ELSE IF lo = hi
    THEN IF lo = failBlock
         THEN [lastBlock |-> lo - 1, err |-> TRUE, failedAt |-> lo,
               fetched |-> <<lo>>, logged |-> <<>>, calls |-> <<>>]
         ELSE ScanBlock(lo, walletSet, analyzerURL)
    ELSE LET mid == (lo + hi) \div 2
             L == ScanRange(lo, mid, walletSet, analyzerURL, failBlock)
         IN  IF L.err THEN L
             ELSE LET R == ScanRange(mid + 1, hi, walletSet, analyzerURL,
                                     failBlock)
                  IN  [lastBlock |-> R.lastBlock, err |-> R.err,
                       failedAt |-> R.failedAt,
                       fetched |-> L.fetched \o R.fetched,
                       logged |-> L.logged \o R.logged,
                       calls |-> L.calls \o R.calls]

NoScan(lastBlk, err) ==
    [lastBlock |-> lastBlk, err |-> err, failedAt |-> 0,
     fetched |-> <<>>, logged |-> <<>>, calls |-> <<>>]

\* rpc = [mode, height, failBlock]: mode "hdr" fails HeaderByNumber, "net"
\* fails NetworkID, failBlock (0: none) is the block whose retrieval fails
fetchNewTransactions(ws, lastBlk, analyzerURL, rpc) ==
    IF rpc.mode = "hdr" THEN NoScan(lastBlk, TRUE)
    ELSE LET latestBlock == rpc.height
             lb == Bootstrap(lastBlk, latestBlock)
         IN  IF lb >= latestBlock THEN NoScan(lb, FALSE)
             ELSE IF rpc.mode = "net" THEN NoScan(lb, TRUE)
             ELSE ScanRange(lb + 1, latestBlock, WalletSet(ws), analyzerURL,
                            rpc.failBlock)

-----------------------------------------------------------------------------
(* History bookkeeping *)

NoTick ==
    [ran |-> FALSE, before |-> 0, mode |-> "ok", height |-> 0, start |-> 0,
     result |-> 0, err |-> FALSE, failedAt |-> 0, fetched |-> <<>>,
     logged |-> <<>>, calls |-> <<>>, failed |-> {}, wallets |-> <<>>,
     query |-> "none", retry |-> 0, crud |-> FALSE]

NoLoad == [done |-> FALSE, val |-> 0, err |-> FALSE, fault |-> "none",
           prev |-> 0, v |-> 0]

NoSave == [st |-> "none", v |-> 0, prev |-> 0, max |-> 0, node |-> ".",
           first |-> 0, scanned |-> {}]

Range(seq) == {seq[i] : i \in 1..Len(seq)}

Max(a, b) == IF a >= b THEN a ELSE b

NoCalls == [ids |-> {}, failed |-> {}, blocks |-> {}]

\* the blocks lo..hi a scan retrieved without error, as a set of at most one
\* interval <<lo, hi>>
Done(r, start) ==
    IF r.fetched # <<>> /\ r.lastBlock >= start
    THEN {<<start, r.lastBlock>>} ELSE {}

Covered(ivs, b) == \E iv \in ivs : iv[1] <= b /\ b <= iv[2]

\* the transactions dispatched, those with a dispatch that returned an
\* error, and the blocks retrieved, after one more scan
AddCalls(dc, calls, failTx, done) ==
    [ids |-> dc.ids \cup Range(calls), failed |-> dc.failed \cup failTx,
     blocks |-> dc.blocks \cup done]

\* everything but the position, the configuration, the files and the
\* connector's inputs is zero before the process runs
Zeroed ==
    /\ lastBlock = 0
    /\ newLastBlock = 0
    /\ wallets = <<>>
    /\ dbpool = FALSE
    /\ wait = InitialWait
    /\ elapsed = 0
    /\ waits = <<>>
    /\ ctx = "live"
    /\ tick = NoTick
    /\ dispatched = NoCalls
    /\ hist = NoSave
    /\ loaded = NoLoad
    /\ ticks = 0
    /\ starts = 0

-----------------------------------------------------------------------------
(* ConnectPostgresWithBackoff (util/util.go) *)

\* lines 39-41
NextWait(w) == IF w < WaitCap THEN w * 2 ELSE w

\* how long one pgxpool.New + Ping may take, in units of 500ms
MaxAttempt == 20
AttemptDurations == {0, MaxAttempt}

\* the maxWait arguments tried; main passes MaxWait
MaxWaits == {0, 16, MaxWait}

\* open: pools created and not closed; peak: the most that were open at once
NoConn == [ret |-> "none", last |-> "none", attempts |-> 0, open |-> 0,
           peak |-> 0]

InitConnect ==
    /\ pc = "connect"
    /\ cfg = loadConfig([WALLETS |-> <<"0xA">>, AI_ANALYZER_URL |-> "",
                         DATABASE_URL |-> "postgres://db"])
    /\ registry = {}
    /\ fs = [n \in Nodes |-> NoNode]
    /\ path = StatePath
    /\ maxWait \in MaxWaits
    /\ connRes = [NoConn EXCEPT !.ret = "running"]
    /\ Zeroed

DeadlineReached_after(e, m) == e > m

\* line 29: time.Since(started) >= maxWait
DeadlineReached(e, m) == e >= m

\* what pgxpool.New and Ping may do: with a cancelled ctx the attempt fails
AttemptOutcomes(c) ==
    IF c = "done" THEN {"newErr", "pingErr"} ELSE {"ok", "newErr", "pingErr"}

Close_leak(n) == n

\* line 25: pool.Close()
Close(n) == n - 1

\* lines 19-27: the pools open after an attempt: New creates one unless it
\* fails, and a failed Ping closes it
OpenAfter(n, outcome) ==
    CASE outcome = "ok" -> n + 1
      [] outcome = "pingErr" -> Close(n + 1)
      [] OTHER -> n

\* lines 19-31: one attempt (New, Ping) and the deadline test; err is the
\* error of New, or pingErr when New succeeded and Ping failed
ConnectAttempt ==
    /\ pc = "connect"
    /\ \E outcome \in AttemptOutcomes(ctx), d \in AttemptDurations :
       LET done == [connRes EXCEPT
                       !.last = outcome,
                       !.attempts = connRes.attempts + 1,
                       !.open = OpenAfter(connRes.open, outcome),
                       !.peak = IF outcome = "newErr" THEN connRes.peak
                                ELSE Max(connRes.peak, connRes.open + 1)]
       IN
          /\ elapsed' = elapsed + d
          /\ IF outcome = "ok"
             THEN /\ connRes' = [done EXCEPT !.ret = "handle"]
                  /\ pc' = "returned"
             ELSE IF DeadlineReached(elapsed', maxWait)
             THEN /\ connRes' = [done EXCEPT !.ret = outcome]
                  /\ pc' = "returned"
             ELSE /\ connRes' = done
                  /\ pc' = "wait"
    /\ UNCHANGED <<cfg, fs, path, lastBlock, newLastBlock, wallets, dbpool,
                   registry, maxWait, wait, waits, ctx, tick, dispatched,
                   hist, loaded, ticks, starts>>

WaitCompletes_always(c) == TRUE

\* lines 33-37: the timer of the select can fire only while ctx.Done() is
\* not ready
WaitCompletes(c) == c = "live"

\* lines 33-41: the timer of the select fires, then the wait is doubled
ConnectWait ==
    /\ pc = "wait"
    /\ WaitCompletes(ctx)
    /\ elapsed' = elapsed + wait
    /\ waits' = Append(waits, wait)
    /\ wait' = NextWait(wait)
    /\ pc' = "connect"
    /\ UNCHANGED <<cfg, fs, path, lastBlock, newLastBlock, wallets, dbpool,
                   registry, maxWait, connRes, ctx, tick, dispatched, hist,
                   loaded, ticks, starts>>

\* lines 33-35: ctx.Done() is ready in the select: return nil, ctx.Err()
ConnectCancelled ==
    /\ pc = "wait"
    /\ ctx = "done"
    /\ connRes' = [connRes EXCEPT !.ret = "canceled"]
    /\ pc' = "returned"
    /\ UNCHANGED <<cfg, fs, path, lastBlock, newLastBlock, wallets, dbpool,
                   registry, maxWait, wait, elapsed, waits, ctx, tick,
                   dispatched, hist, loaded, ticks, starts>>

\* the caller cancels ctx, during an attempt or during a wait
CtxCancel ==
    /\ pc \in {"connect", "wait"}
    /\ ctx = "live"
    /\ ctx' = "done"
    /\ UNCHANGED <<pc, cfg, fs, path, lastBlock, newLastBlock, wallets,
                   dbpool, registry, maxWait, wait, elapsed, waits, connRes,
                   tick, dispatched, hist, loaded, ticks, starts>>

ConnectStep == ConnectAttempt \/ ConnectWait \/ ConnectCancelled

NextConnect ==
    \/ ConnectAttempt
    \/ ConnectWait
    \/ ConnectCancelled
    \/ CtxCancel

SpecConnect == InitConnect /\ [][NextConnect]_vars

\* every attempt and every wait completes
SpecConnectLive == SpecConnect /\ WF_vars(ConnectStep)

-----------------------------------------------------------------------------
(* The checkpoint store on its own: saveState and loadState on any path *)

SaveValues == {0, 7, 12345}

StoreInits ==
    {f \in [Nodes -> {NoNode, DirNode, FileNode(Marshal(12345)),
                      FileNode(Marshal(7))}] :
        /\ f["state.json"] \in {NoNode, FileNode(Marshal(12345))}
        /\ f["statedir"] \in {NoNode, DirNode}
        /\ f["statedir/state.json"] \in {NoNode, FileNode(Marshal(7))}
        /\ (f["statedir"] = NoNode => f["statedir/state.json"] = NoNode)}

InitStore ==
    /\ pc = "store"
    /\ cfg = loadConfig([WALLETS |-> <<"0xA">>, AI_ANALYZER_URL |-> "",
                         DATABASE_URL |-> ""])
    /\ registry = {}
    /\ fs \in StoreInits
    /\ path \in Paths
    /\ maxWait = MaxWait
    /\ connRes = NoConn
    /\ Zeroed

\* one whole saveState(path, v)
StoreSave ==
    /\ pc = "store"
    /\ \E v \in SaveValues, fault \in IOFaults \ {"read"} :
       \E written \in IF fault = "write" THEN PartialLengths(Marshal(v))
                      ELSE {0} :
       LET r == saveState(fs, path, v, fault, written) IN
          /\ fs' = r.fs
          /\ hist' = [hist EXCEPT !.st = IF r.err THEN "err" ELSE "ok",
                                  !.v = v, !.prev = PersistedValue]
    /\ loaded' = NoLoad
    /\ UNCHANGED <<pc, cfg, path, lastBlock, newLastBlock, wallets, dbpool,
                   registry, maxWait, wait, elapsed, waits, connRes, ctx, tick,
                   dispatched, ticks, starts>>

\* one loadState(path) by a fresh process, no I/O fault injected
StoreLoad ==
    /\ pc = "store"
    /\ LET r == loadState(fs, path, "none") IN
          /\ fs' = r.fs
          /\ loaded' = [done |-> TRUE, val |-> r.val, err |-> r.err,
                        fault |-> "none", prev |-> hist.prev, v |-> hist.v]
    /\ UNCHANGED <<pc, cfg, path, lastBlock, newLastBlock, wallets, dbpool,
                   registry, maxWait, wait, elapsed, waits, connRes, ctx, tick,
                   dispatched, hist, ticks, starts>>

NextStore == StoreSave \/ StoreLoad

SpecStore == InitStore /\ [][NextStore]_vars

-----------------------------------------------------------------------------
(* main (main.go) *)

InitIn(envs) ==
    /\ \E env \in envs :
          /\ cfg = loadConfig(env)
          /\ registry \in (IF env.DATABASE_URL = "" THEN {{}}
                           ELSE {{}, {"0xB"}})
    /\ pc = "down"
    /\ fs = [n \in Nodes |-> NoNode]
    /\ path = StatePath
    /\ maxWait = MaxWait
    /\ connRes = NoConn
    /\ Zeroed

Init == InitIn(Envs)

\* the process started with a registry configured
InitWatch == InitIn(WatchEnvs)

\* lines 18-51: the process starts; when DATABASE_URL is set
\* ConnectPostgresWithBackoff(ctx, url, 60s) returns a pool or an error
Start ==
    /\ pc = "down"
    /\ starts < MaxStarts
    /\ starts' = starts + 1
    /\ pc' = "dial"
    /\ dbpool' \in IF cfg.DatabaseURL # "" THEN BOOLEAN ELSE {FALSE}
    /\ UNCHANGED <<cfg, fs, path, lastBlock, newLastBlock, wallets, registry,
                   maxWait, wait, elapsed, waits, connRes, ctx, tick, dispatched,
                   hist, loaded, ticks>>

\* lines 53-74: ethclient.Dial (fatal on error), then loadState
DialAndLoad ==
    /\ pc = "dial"
    /\ \E dialOk \in BOOLEAN, fault \in {"none", "read"} :
          IF ~dialOk
          THEN /\ fault = "none"
               /\ pc' = "down"
               /\ dbpool' = FALSE
               /\ UNCHANGED <<fs, lastBlock, loaded>>
          ELSE LET r == loadState(fs, path, fault) IN
               /\ pc' = "idle"
               /\ fs' = r.fs
               /\ lastBlock' = IF r.err THEN 0 ELSE r.val
               /\ loaded' = [done |-> TRUE, val |-> r.val, err |-> r.err,
                             fault |-> fault, prev |-> hist.prev,
                             v |-> hist.v]
               /\ UNCHANGED dbpool
    /\ UNCHANGED <<cfg, path, newLastBlock, wallets, registry, maxWait, wait,
                   elapsed, waits, connRes, ctx, tick, dispatched, hist, ticks,
                   starts>>

\* the elements of a set in some order
RECURSIVE SetToSeq(_)
SetToSeq(S) ==
    IF S = {} THEN <<>>
    ELSE LET x == CHOOSE y \in S : TRUE IN <<x>> \o SetToSeq(S \ {x})

\* db.FetchMonitoredWallets when the query succeeds: SELECT address FROM
\* addresses
FetchMonitoredWallets(rows) == SetToSeq(rows)

CurrentWallets_noempty(pool, queryOk) ==
    LET w == FetchMonitoredWallets(registry) IN
    IF pool /\ queryOk THEN w ELSE cfg.Wallets

CurrentWallets_nopool(pool, queryOk) ==
    LET w == FetchMonitoredWallets(registry) IN
    IF queryOk /\ Len(w) > 0 THEN w ELSE cfg.Wallets

\* lines 78-84: the address list of this loop iteration
CurrentWallets(pool, queryOk) ==
    LET w == FetchMonitoredWallets(registry) IN
    IF pool /\ queryOk /\ Len(w) > 0 THEN w ELSE cfg.Wallets

ResolveWallets ==
    /\ pc = "idle"
    /\ ticks < MaxTicks
    /\ ticks' = ticks + 1
    /\ \E queryOk \in BOOLEAN :
          /\ (~dbpool => queryOk)
          /\ wallets' = CurrentWallets(dbpool, queryOk)
          /\ tick' = [NoTick EXCEPT
                         !.query = IF ~dbpool THEN "none"
                                   ELSE IF queryOk THEN "ok" ELSE "err",
                         !.retry = tick.failedAt]
    /\ pc' = "scan"
    /\ UNCHANGED <<cfg, fs, path, lastBlock, newLastBlock, dbpool, registry,
                   maxWait, wait, elapsed, waits, connRes, ctx, dispatched, hist,
                   loaded, starts>>

TickWallets_reread(resolved) == CurrentWallets(dbpool, TRUE)

\* line 86: the list resolved at lines 79-84 is the argument of this
\* iteration's fetchNewTransactions, which builds its set from it once
TickWallets(resolved) == resolved

\* sendToAIAnalyzer: TRUE when it returns an error (the POST failed, or the
\* status is not 200)
sendToAIAnalyzer(reply) == reply # "200"

Replies == {"200", "500", "refused"}

ShouldSave_orequal(newLast, last) == newLast >= last

ShouldSave_never(newLast, last) == FALSE

\* line 89
ShouldSave(newLast, last) == newLast > last

\* lines 86-99, up to the call of saveState
Fetch ==
    /\ pc = "scan"
    /\ \E mode \in {"ok", "hdr", "net", "blk"} :
       \E height \in IF mode = "hdr" THEN {0} ELSE Heights :
       \E failBlock \in IF mode = "blk"
                        THEN {k \in (Bootstrap(lastBlock, height) + 1)..height :
                                 FlakyBlock(k)}
                        ELSE {0} :
       \E r \in {fetchNewTransactions(TickWallets(wallets), lastBlock,
                    cfg.AIAnalyzerURL,
                    [mode |-> mode, height |-> height,
                     failBlock |-> failBlock])} :
       \E replies \in [Range(r.calls)
                        \cap FlakyTxs(Bootstrap(lastBlock, height) + 1,
                                      r.lastBlock) -> Replies] :
       LET failTx == {id \in DOMAIN replies : sendToAIAnalyzer(replies[id])}
           start == Bootstrap(lastBlock, height) + 1
       IN
          /\ tick' = [ran |-> TRUE, before |-> lastBlock, mode |-> mode,
                      height |-> height,
                      start |-> IF mode = "hdr" THEN 0
                                ELSE Bootstrap(lastBlock, height) + 1,
                      result |-> r.lastBlock, err |-> r.err,
                      failedAt |-> r.failedAt, fetched |-> r.fetched,
                      logged |-> r.logged, calls |-> r.calls,
                      failed |-> failTx, wallets |-> TickWallets(wallets),
                      query |-> tick.query, retry |-> 0,
                      \* history: the registry no longer answers what it
                      \* answered when this tick resolved its list
                      crud |-> tick.query = "ok"
                                 /\ CurrentWallets(dbpool, TRUE) # wallets]
          /\ dispatched' = AddCalls(dispatched, r.calls, failTx,
                                    Done(r, start))
          /\ hist' = [hist EXCEPT
                         !.first = IF hist.first = 0 /\ r.fetched # <<>>
                                   THEN start ELSE hist.first,
                         !.scanned = hist.scanned \cup Done(r, start)]
          /\ IF ~r.err /\ ShouldSave(r.lastBlock, lastBlock)
             THEN /\ pc' = "open"
                  /\ newLastBlock' = r.lastBlock
             ELSE /\ pc' = "idle"
                  /\ UNCHANGED newLastBlock
    /\ UNCHANGED <<cfg, fs, path, lastBlock, wallets, dbpool, registry,
                   maxWait, wait, elapsed, waits, connRes, ctx, loaded, ticks,
                   starts>>

\* lines 91-96, saveState up to the open of os.WriteFile, which truncates
\* the file; when it fails main still sets lastBlock = newLastBlock
SaveOpen ==
    /\ pc = "open"
    /\ \E fault \in {"none", "open"} :
       LET r == saveOpen(fs, path, fault) IN
          /\ fs' = r.fs
          /\ hist' = [hist EXCEPT !.st = IF r.err THEN "err" ELSE "busy",
                                  !.v = newLastBlock,
                                  !.prev = PersistedValue,
                                  !.node = r.node]
          /\ IF r.err
             THEN /\ lastBlock' = newLastBlock
                  /\ pc' = "idle"
             ELSE /\ pc' = "write"
                  /\ UNCHANGED lastBlock
    /\ UNCHANGED <<cfg, path, newLastBlock, wallets, dbpool, registry,
                   maxWait, wait, elapsed, waits, connRes, ctx, tick, dispatched,
                   loaded, ticks, starts>>

\* lines 91-96: the write of os.WriteFile, then lastBlock = newLastBlock
\* whether or not saveState returned an error
SaveWrite ==
    /\ pc = "write"
    /\ \E fault \in {"none", "write"} :
       \E written \in IF fault = "write"
                      THEN CutLengths(Marshal(newLastBlock)) ELSE {0} :
       LET r == saveWrite(fs, hist.node, newLastBlock, fault, written) IN
          /\ fs' = r.fs
          /\ hist' = [hist EXCEPT !.st = IF r.err THEN "err" ELSE "ok",
                                  !.max = IF r.err THEN @
                                          ELSE Max(@, newLastBlock)]
    /\ lastBlock' = newLastBlock
    /\ pc' = "idle"
    /\ UNCHANGED <<cfg, path, newLastBlock, wallets, dbpool, registry,
                   maxWait, wait, elapsed, waits, connRes, ctx, tick, dispatched,
                   loaded, ticks, starts>>

\* the process is killed; a write in progress leaves a prefix of the data
Crash ==
    /\ pc \in {"idle", "scan", "open", "write"}
    /\ pc' = "down"
    /\ IF pc = "write"
       THEN \E written \in CutLengths(Marshal(newLastBlock)) :
               /\ fs' = [fs EXCEPT ![hist.node] =
                            FileNode(SubSeq(Marshal(newLastBlock), 1,
                                            written))]
               /\ hist' = [hist EXCEPT !.st = "crash"]
       ELSE UNCHANGED <<fs, hist>>
    /\ lastBlock' = 0
    /\ newLastBlock' = 0
    /\ wallets' = <<>>
    /\ dbpool' = FALSE
    /\ tick' = NoTick
    /\ dispatched' = NoCalls
    /\ UNCHANGED <<cfg, path, registry, maxWait, wait, elapsed, waits,
                   connRes, ctx, loaded, ticks, starts>>

Next ==
    \/ Start
    \/ DialAndLoad
    \/ ResolveWallets
    \/ Fetch
    \/ SaveOpen
    \/ SaveWrite
    \/ Crash

Spec == Init /\ [][Next]_vars

\* the process with a registry configured, while it is not killed (a failed
\* Dial still ends it)
NextWatch ==
    \/ Start
    \/ DialAndLoad
    \/ ResolveWallets
    \/ Fetch
    \/ SaveOpen
    \/ SaveWrite

SpecWatch == InitWatch /\ [][NextWatch]_vars

\* the addresses a request names; "" is the missing address
RequestAddrs == {"0xB", ""}

\* strings.TrimSpace(in.Address) == "" / path == "": the request is answered
\* with 400 before any statement runs
AddressRequired(addr) == addr = ""

\* the rows of addresses after the statement of a request succeeded: the
\* upsert of POST adds the address, DELETE removes it, the UPDATE of PUT and
\* the SELECT of GET leave the set of addresses as it is
ExecAddress(rows, method, addr) ==
    CASE method = "POST"   -> rows \cup {addr}
      [] method = "DELETE" -> rows \ {addr}
      [] OTHER             -> rows

\* main.go lines 36-46: the HTTP server runs in the process once the pool
\* was obtained
Serving == pc # "down" /\ dbpool

\* a request handled by the server: only the addresses table changes
Handle(methods) ==
    /\ Serving
    /\ registry' \in {IF AddressRequired(addr) \/ ~execOk THEN registry
                       ELSE ExecAddress(registry, method, addr) :
                          method \in methods, addr \in RequestAddrs,
                          execOk \in BOOLEAN}
    /\ UNCHANGED <<pc, cfg, fs, path, lastBlock, newLastBlock, wallets,
                   dbpool, maxWait, wait, elapsed, waits, connRes, ctx, tick,
                   dispatched, hist, loaded, ticks, starts>>

\* the handler of /addresses
AddressesHandler == Handle({"POST", "GET"})

\* the handler of /addresses/{address}
AddressHandler == Handle({"GET", "PUT", "DELETE"})

\* the scan loop and the address routes of one process
NextCrud ==
    \/ Start
    \/ DialAndLoad
    \/ ResolveWallets
    \/ Fetch
    \/ SaveOpen
    \/ SaveWrite
    \/ AddressesHandler
    \/ AddressHandler

SpecCrud == InitWatch /\ [][NextCrud]_vars

-----------------------------------------------------------------------------
(* Properties *)

\* blocks of the latest scan that were retrieved without error
Retrieved == Range(tick.fetched) \ {tick.failedAt}

\* C1: when the retrieval of block k fails after blocks start..k-1 were
\* processed (start < k), the checkpoint after the tick is k-1.
C1_PartialFailureCheckpoint ==
    (pc = "idle" /\ tick.ran /\ tick.failedAt # 0
        /\ tick.start < tick.failedAt)
    => lastBlock = tick.failedAt - 1

\* C2: the persisted checkpoint never decreases: outside of a write in
\* progress a load returns at least every value a save has persisted, and
\* every save writes at least the value persisted before it.
C2_Monotonic ==
    /\ (pc # "write" => PersistedValue >= hist.max)
    /\ (hist.st # "none" => hist.v >= hist.prev)

\* C3: a load that follows a save, also one cut short by a crash, returns
\* the value persisted before that save or the value being saved.
C3_AtomicSave ==
    (loaded.done /\ ~loaded.err) => loaded.val \in {loaded.prev, loaded.v}

\* C4 as claimed: with checkpoint 0 the first block of the range is
\* height - 1000 when height > 1000, and 1 otherwise.
C4_BootstrapStartClaimed ==
    (tick.ran /\ tick.mode # "hdr" /\ tick.before = 0)
    => LET first == IF tick.height > BootstrapWindow
                    THEN tick.height - BootstrapWindow ELSE 1
       IN  /\ tick.start = first
           /\ (tick.fetched # <<>> => tick.fetched[1] = first)

\* C4 as amended: with checkpoint 0 the checkpoint is seeded with
\* height - 1000 when height > 1000, so the first block of the range is
\* height - 1000 + 1; it is 1 when height <= 1000.
C4_BootstrapStart ==
    (tick.ran /\ tick.mode # "hdr" /\ tick.before = 0)
    => LET first == IF tick.height > BootstrapWindow
                    THEN tick.height - BootstrapWindow + 1 ELSE 1
       IN  /\ tick.start = first
           /\ (tick.fetched # <<>> => tick.fetched[1] = first)

C4_Witness ==
    /\ tick.ran /\ tick.before = 0 /\ tick.height > BootstrapWindow
    /\ tick.fetched # <<>>
    /\ tick.fetched[1] = tick.height - BootstrapWindow + 1

\* C5: the first wait is 500ms, each later wait is the double of the one
\* before or the cap, and no wait exceeds the 5s cap.
C5_WaitCap ==
    \A i \in 1..Len(waits) :
        /\ waits[i] <= WaitCap
        /\ (i = 1 => waits[i] = InitialWait)
        /\ (i > 1 => waits[i] \in {2 * waits[i - 1], WaitCap})

\* C6: a tick that finds the chain height equal to the checkpoint retrieves
\* no block, logs and dispatches nothing, starts no checkpoint write and
\* leaves the in-memory and the persisted checkpoint as they were.
C6_NoopTick ==
    [][(pc = "scan" /\ pc' # "down" /\ tick'.mode # "hdr"
          /\ tick'.height = lastBlock)
       => (/\ pc' = "idle"
           /\ lastBlock' = lastBlock
           /\ fs' = fs
           /\ hist' = hist
           /\ dispatched' = dispatched
           /\ tick'.fetched = <<>>
           /\ tick'.logged = <<>>
           /\ tick'.calls = <<>>)]_vars

C6_Witness ==
    /\ pc = "idle" /\ tick.ran /\ tick.mode = "ok"
    /\ tick.before > 0 /\ tick.height = tick.before
    /\ lastBlock = tick.before

\* C7: a load after a save that returned no error returns the saved value
\* and no error, on every kind of path; a load where no file exists returns
\* 0 and no error.
C7_Durability ==
    loaded.done =>
        /\ (hist.st = "ok" => loaded.val = hist.v /\ ~loaded.err)
        /\ ((\A n \in Nodes : fs[n].kind # "file")
               => loaded.val = 0 /\ ~loaded.err)

C7_Witness ==
    /\ loaded.done /\ hist.st = "ok" /\ hist.v = 12345
    /\ loaded.val = 12345 /\ path.slash

\* C8: in a scan, a transaction whose sender was recovered is logged as a
\* match exactly when its sender or its recipient is watched, and with an
\* analyzer configured each match is dispatched exactly once.
C8_MatchIff ==
    tick.ran =>
      \A b \in {k \in Retrieved : BlockTxs(k) # <<>>} :
        \A i \in 1..Len(BlockTxs(b)) :
          LET tx == BlockTxs(b)[i]
              watch == WalletSet(tick.wallets)
              hit == tx.from \in watch \/ (tx.to # "nil" /\ tx.to \in watch)
          IN  tx.from # "badsig" =>
                /\ (tx.id \in Range(tick.logged)) <=> hit
                /\ cfg.AIAnalyzerURL # "" =>
                     Cardinality({j \in 1..Len(tick.calls) :
                                     tick.calls[j] = tx.id})
                       = IF hit THEN 1 ELSE 0

\* C9: a failed dispatch stops neither the scan nor the tick, the
\* checkpoint advances as if it had succeeded, and the transaction is not
\* dispatched again by this process.
C9_NoRedispatch ==
    [][(pc = "scan" /\ pc' # "down")
       => (/\ \A id \in dispatched.failed : id \notin Range(tick'.calls)
           /\ \A j, k \in 1..Len(tick'.calls) :
                 tick'.calls[j] = tick'.calls[k] => j = k
           /\ (tick'.failed # {} /\ tick'.mode = "ok")
                 => (tick'.result = tick'.height /\ pc' = "open"))]_vars

\* C10: without an analyzer URL no dispatch call is made, every match is
\* still logged, and the scan returns the checkpoint it returns with an
\* analyzer configured.
C10_DispatchSkip ==
    (cfg.AIAnalyzerURL = "" /\ tick.ran) =>
        LET r == fetchNewTransactions(tick.wallets, tick.before,
                    "http://analyzer",
                    [mode |-> tick.mode, height |-> tick.height,
                     failBlock |-> tick.failedAt])
        IN  /\ dispatched.ids = {}
            /\ tick.calls = <<>>
            /\ tick.logged = r.calls
            /\ tick.result = r.lastBlock
            /\ tick.err = r.err

C10_Witness ==
    /\ cfg.AIAnalyzerURL = "" /\ tick.ran /\ tick.logged # <<>>
    /\ tick.result > tick.before /\ pc = "idle" /\ lastBlock = tick.result

\* C11: the address list handed to the scan is the registry's rows when
\* there is a pool, the query succeeded and returned at least one row, and
\* the configured list in every other case; whatever the query did, the
\* iteration goes on to the scan.
C11_WatchListFallback ==
    /\ []((pc = "scan" \/ tick.ran)
            => LET used == IF tick.ran THEN tick.wallets ELSE wallets
                   rows == FetchMonitoredWallets(registry)
               IN  /\ (tick.query = "none") <=> ~dbpool
                   /\ used = IF tick.query = "ok" /\ rows # <<>>
                             THEN rows ELSE cfg.Wallets)
    /\ [][(pc = "idle") => (pc' = "scan")]_vars

C11_Witness ==
    /\ pc = "idle" /\ tick.ran /\ tick.query = "err" /\ registry # {}
    /\ tick.wallets = cfg.Wallets /\ ~tick.err /\ lastBlock > tick.before

\* C14: when no pool was obtained at startup (connect failed, or no
\* DATABASE_URL) the process goes on to Dial and to the loop, and every
\* iteration of that process scans with the configured list.
C14_NonFatalConnect ==
    /\ []((~dbpool /\ pc \notin {"down", "dial"})
            => /\ pc = "scan" => wallets = cfg.Wallets
               /\ tick.ran => tick.wallets = cfg.Wallets)
    /\ [][(pc = "down") => (pc' = "dial")]_vars
    /\ [][(pc = "dial" /\ pc' # "down")
            => (pc' = "idle" /\ dbpool' = dbpool)]_vars

C14_Witness ==
    /\ cfg.DatabaseURL # "" /\ ~dbpool /\ registry # {}
    /\ pc = "idle" /\ ticks = 2 /\ tick.ran /\ tick.fetched # <<>>
    /\ tick.wallets = cfg.Wallets

\* C15: in a process that loaded a checkpoint c > 0, a scan that starts
\* while the checkpoint is still c starts at block c + 1, and no scan of
\* that process retrieves, logs or dispatches anything of a block <= c.
C15_ResumeOnRestart ==
    (tick.ran /\ loaded.done /\ ~loaded.err /\ loaded.val > 0)
    => LET c == loaded.val IN
       /\ lastBlock >= c
       /\ tick.mode # "hdr" => tick.start > c
       /\ (tick.before = c /\ tick.fetched # <<>>)
             => tick.fetched[1] = c + 1
       /\ \A i \in 1..Len(tick.fetched) : tick.fetched[i] > c
       /\ \A id \in Range(tick.logged) \cup Range(tick.calls) : id[1] > c

C15_Witness ==
    /\ starts = 2 /\ loaded.done /\ ~loaded.err
    /\ loaded.val = BootstrapWindow
    /\ tick.ran /\ tick.fetched # <<>>
    /\ tick.fetched[1] = BootstrapWindow + 1 /\ tick.calls # <<>>

\* C16: every block from the start of the first range ever scanned up to
\* the persisted checkpoint has been retrieved without error and filtered
\* (which is when its matches are dispatched) by some scan.
C16_NoSkippedBlock ==
    (pc # "write" /\ hist.first > 0)
    => \A b \in hist.first..PersistedValue : Covered(hist.scanned, b)

\* C17: a scan retrieves consecutive blocks in increasing order, and
\* retrieves without error no block that an earlier scan of the same process
\* retrieved without error.
C17_NoOverlap ==
    [][(pc = "scan" /\ pc' # "down")
       => (/\ \A i \in 1..(Len(tick'.fetched) - 1) :
                 tick'.fetched[i + 1] = tick'.fetched[i] + 1
           /\ \A iv \in Done([fetched |-> tick'.fetched,
                                lastBlock |-> tick'.result], tick'.start) :
                 \A old \in dispatched.blocks :
                    old[2] < iv[1] \/ iv[2] < old[1])]_vars

\* C18: after a tick that scanned its whole range and whose saveState
\* returned an error, the in-memory checkpoint is the one from before the
\* tick.
C18_StaleAfterSaveError ==
    (pc = "idle" /\ tick.ran /\ ~tick.err /\ tick.fetched # <<>>
        /\ hist.st = "err" /\ hist.v = tick.result)
    => lastBlock = tick.before

\* C19: a scan that retrieved every block of a non-empty range returns the
\* height it read at its start; the tick then calls saveState once, with
\* that height, and when that call returns no error the persisted
\* checkpoint is that height.
C19_CommitOnSuccess ==
    /\ [][(pc = "scan" /\ pc' # "down" /\ tick'.fetched # <<>>
              /\ ~tick'.err)
            => (/\ pc' = "open"
                /\ tick'.result = tick'.height
                /\ tick'.fetched[Len(tick'.fetched)] = tick'.height
                /\ newLastBlock' = tick'.height
                /\ fs' = fs)]_vars
    /\ [][(pc = "open" /\ pc' # "down")
            => (/\ hist'.v = newLastBlock
                /\ pc' \in {"write", "idle"}
                /\ pc' = "idle" => hist'.st = "err")]_vars
    /\ [][(pc = "write" /\ pc' # "down")
            => (/\ pc' = "idle"
                /\ hist'.v = newLastBlock
                /\ hist'.st \in {"ok", "err"}
                /\ hist'.st = "ok" => PersistedValue' = newLastBlock)]_vars
    /\ [][(pc \in {"idle", "scan"}) => (fs' = fs)]_vars

C19_Witness ==
    /\ pc = "idle" /\ tick.ran /\ ~tick.err
    /\ Len(tick.fetched) > Len(tick.logged) + 1
    /\ hist.st = "ok" /\ hist.v = tick.height
    /\ PersistedValue = tick.height /\ lastBlock = tick.height

\* C20: a scan in which the retrieval of block k fails retrieves no block
\* after k and dispatches nothing of a block >= k, and the loop goes on; the
\* range of the next scan of the process, when the height it reads is at
\* least k, contains k.
C20_AbortAndRetry ==
    [][(pc = "scan" /\ pc' # "down")
       => (/\ tick'.failedAt # 0
                => (/\ pc' = "idle"
                    /\ tick'.fetched[Len(tick'.fetched)] = tick'.failedAt
                    /\ \A id \in Range(tick'.calls) :
                          id[1] < tick'.failedAt)
           /\ (tick.retry # 0 /\ tick'.mode # "hdr"
                 /\ tick'.height >= tick.retry)
                => tick'.start <= tick.retry)]_vars

\* C12: with every attempt and every wait completing, connect terminates;
\* it returns a handle only from an attempt whose New and Ping both
\* succeeded; a failed attempt that ends before maxWait is followed by a
\* wait and another attempt; the first failed attempt that ends at or after
\* maxWait returns the error of that attempt, and nothing is attempted after
\* the return.
C12_BackoffResult ==
    /\ [][(pc = "connect" /\ pc' # "connect")
           => LET ok == connRes'.last = "ok" IN
              /\ connRes'.attempts = connRes.attempts + 1
              /\ (connRes'.ret = "handle") <=> ok
              /\ (~ok /\ elapsed' < maxWait)
                    => (pc' = "wait" /\ connRes'.ret = "running")
              /\ (~ok /\ elapsed' >= maxWait)
                    => (/\ pc' = "returned"
                        /\ connRes'.ret = connRes'.last
                        /\ connRes'.ret \in {"newErr", "pingErr"})]_vars
    /\ [][(pc = "returned")
           => (pc' = "returned" /\ connRes' = connRes)]_vars
    /\ [](connRes.ret = "handle" => connRes.last = "ok")
    /\ <>(pc = "returned")

C12_Witness ==
    /\ pc = "returned" /\ ctx = "live" /\ connRes.ret = "pingErr"
    /\ connRes.attempts >= 3 /\ elapsed >= maxWait /\ maxWait = MaxWait

\* C13: when ctx is cancelled while connect waits between two attempts,
\* connect returns the cancellation error at once: the wait is not
\* completed, no further attempt is made and no handle is returned.
C13_Cancellation ==
    [][(pc = "wait" /\ ctx = "done")
       => (/\ pc' = "returned"
           /\ connRes'.ret = "canceled"
           /\ connRes'.attempts = connRes.attempts
           /\ waits' = waits
           /\ elapsed' = elapsed)]_vars

C13_Witness ==
    /\ pc = "returned" /\ connRes.ret = "canceled"
    /\ connRes.attempts >= 2 /\ Len(waits) = connRes.attempts - 1

\* C25: connect never has more than one created pool open; between
\* attempts and when it returns an error none is open, and when it returns
\* a handle exactly that pool is open.
C25_NoLeakedPool ==
    /\ connRes.peak <= 1
    /\ connRes.open <= 1
    /\ pc = "wait" => connRes.open = 0
    /\ (pc = "returned" /\ connRes.ret # "handle") => connRes.open = 0
    /\ (pc = "returned" /\ connRes.ret = "handle") => connRes.open = 1

C25_Witness ==
    /\ pc = "returned" /\ connRes.ret = "canceled"
    /\ connRes.last = "pingErr" /\ connRes.attempts >= 2
    /\ connRes.peak = 1 /\ connRes.open = 0

\* C21: a scan entered with a checkpoint c > 0 does not apply the bootstrap
\* window: its range starts at c + 1 and ends at the height read by that
\* scan, also above 1000; it is empty when c + 1 exceeds that height.
C21_RangeInvariant ==
    (tick.ran /\ tick.mode # "hdr" /\ tick.before > 0)
    => /\ tick.start = tick.before + 1
       /\ tick.start > tick.height
            => (tick.fetched = <<>> /\ tick.result = tick.before)
       /\ (tick.start <= tick.height /\ tick.mode \in {"ok", "blk"})
            => tick.fetched[1] = tick.start
       /\ (tick.start <= tick.height /\ tick.mode = "ok")
            => (/\ Len(tick.fetched) = tick.height - tick.start + 1
                /\ tick.fetched[Len(tick.fetched)] = tick.height
                /\ tick.result = tick.height)

C21_Witness ==
    /\ tick.ran /\ tick.mode = "ok" /\ tick.before = BootstrapWindow
    /\ tick.height = BootstrapWindow + 2
    /\ tick.fetched = <<BootstrapWindow + 1, BootstrapWindow + 2>>

\* C22: in a block that was retrieved, a transaction whose sender cannot be
\* recovered is neither logged nor dispatched, whatever its recipient; every
\* other transaction of the block is classified by its sender and
\* recipient, and the scan goes on past the block to the height.
C22_SenderFailureIsolation ==
    tick.ran =>
      \A b \in BadSigBlocks :
        (tick.mode \in {"ok", "blk"} /\ tick.start <= b /\ b <= tick.result)
        => /\ \A i \in 1..Len(BlockTxs(b)) :
                LET tx == BlockTxs(b)[i] IN
                IF tx.from = "badsig"
                THEN tx.id \notin Range(tick.logged) \cup Range(tick.calls)
                ELSE (tx.id \in Range(tick.logged))
                        <=> IsMatch(tx, WalletSet(tick.wallets))
           /\ tick.mode = "ok" => tick.result = tick.height

C22_Witness ==
    /\ pc = "idle" /\ tick.ran /\ tick.mode = "ok"
    /\ tick.height = BootstrapWindow + 2
    /\ lastBlock = BootstrapWindow + 2
    /\ "a" \in WalletSet(tick.wallets)
    /\ <<BootstrapWindow + 2, 2>> \in Range(tick.logged)
    /\ <<BootstrapWindow + 2, 3>> \notin Range(tick.logged)
    /\ BlockTxs(BootstrapWindow + 2)[3].from = "badsig"
    /\ BlockTxs(BootstrapWindow + 2)[3].to = "a"

\* C23: a transaction without recipient whose sender is not in the watch
\* set of the scan is neither logged as a match nor dispatched.
C23_NoRecipientNoMatch ==
    tick.ran =>
      \A id \in Range(tick.logged) \cup Range(tick.calls) :
        LET tx == BlockTxs(id[1])[id[2]] IN
        ~(tx.to = "nil" /\ tx.from \notin WalletSet(tick.wallets))

\* C24: the address list is resolved once, when the tick starts, from the
\* registry's rows of that moment or the static list, and the scan of that
\* tick matches every block against exactly that list, whatever the address
\* routes commit meanwhile; a request changes nothing but the registry, and
\* no step of the scan loop changes the registry.
C24_WatchSetSnapshot ==
    /\ [][(wallets' # wallets) => (pc = "idle" /\ pc' = "scan")]_vars
    /\ [][(pc = "idle" /\ pc' = "scan") =>
             (wallets' = IF dbpool /\ tick'.query = "ok" /\ registry # {}
                         THEN FetchMonitoredWallets(registry)
                         ELSE cfg.Wallets)]_vars
    /\ [][(pc = "scan" /\ pc' # "scan") =>
             (/\ tick'.wallets = wallets
              /\ \A i \in 1..Len(tick'.fetched) :
                    LET b == tick'.fetched[i] IN
                    (b # tick'.failedAt) =>
                      \A k \in 1..Len(BlockTxs(b)) :
                         (<<b, k>> \in Range(tick'.logged)) <=>
                            (/\ SenderRecovered(BlockTxs(b)[k])
                             /\ IsMatch(BlockTxs(b)[k],
                                        WalletSet(wallets))))]_vars
    /\ [][(registry' # registry) =>
             (/\ pc' = pc
              /\ UNCHANGED <<cfg, fs, path, lastBlock, newLastBlock, wallets,
                             dbpool, dispatched, hist, loaded, ticks,
                             starts>>)]_vars
    /\ [][(pc' # pc) => (registry' = registry)]_vars

\* a tick resolved the static list from an empty registry, the registry
\* gained an address while the tick was scanning, and the tick matched
\* against the static list only
C24_Witness ==
    /\ pc \in {"idle", "open"} /\ tick.ran /\ tick.crud
    /\ tick.query = "ok" /\ tick.wallets = cfg.Wallets
    /\ registry = {"0xB"}
    /\ \E id \in Range(tick.logged) :
          /\ IsMatch(BlockTxs(id[1])[id[2]], WalletSet(cfg.Wallets))
          /\ ~IsMatch(BlockTxs(id[1])[id[2]], WalletSet(<<"0xB">>))

====
